---- MODULE Spec2Model ----
(***************************************************************************)
(* State-machine model of biosteam.units.MolecularSieve                    *)
(* (src/biosteam/units/molecular_sieve.py): a component-wise splitter with *)
(* pressure propagation (_run), one design metric and two approximate heat *)
(* duties (_design) and a power-law cost correlation (@cost).              *)
(*                                                                         *)
(* Python indexes streams from 0, TLA+ sequences from 1:                   *)
(*   outs[1] here is outs[0] in the source (the split / product stream),   *)
(*   outs[2] here is outs[1] in the source (the remainder / reject stream).*)
(*                                                                         *)
(* Floating-point quantities are fixed point:                              *)
(*   split fractions are isplit/SplitDen, component flows are whole kmol/hr*)
(*   that are multiples of SplitDen (so every split is exact), heat duties *)
(*   are in hundredths of kJ/hr (1429.65 -> 142965), cost indices in       *)
(*   tenths (521.9 -> 5219), the size ratio S_actual/S in QDen-ths and its *)
(*   power in PowScale-ths, both rounded down.                             *)
(***************************************************************************)
EXTENDS Integers, Sequences, FiniteSets, TLC

VARIABLES
    args,            \* the arguments the constructor was called with
    ins,             \* ins[0]: the feed stream
    outs,            \* <<outs[0], outs[1]>>: the two outlet streams
    split,           \* self.split: component -> numerator of its split fraction
    P,               \* self.P: <<>> is None, <<p>> an override pressure
    approx_duty,     \* self.approx_duty
    design_results,  \* self.design_results
    heat_utilities,  \* self.heat_utilities, in order of addition
    cost_results,    \* what the cost correlation last wrote
    reconfigured,    \* self.P has been assigned after construction
    last             \* the call that produced this state

vars == <<args, ins, outs, split, P, approx_duty, design_results,
          heat_utilities, cost_results, reconfigured, last>>

----------------------------------------------------------------------------
(* Bounds of the model *)

MaxFlow == 1        \* inlet component flows are 0..MaxFlow flow steps
FlowQuantum == 20   \* kmol/hr in one flow step, per unit of SplitDen
SplitDen == 2       \* split fractions are k/SplitDen, k in 0..SplitDen
MaxP == 2           \* pressures are 1..MaxP
MaxHU == 4          \* design() is not called once more than MaxHU entries would result
QDen == 64          \* resolution of the size ratio S_actual/S
PowScale == 64      \* resolution of (S_actual/S)**n

----------------------------------------------------------------------------
(* Streams and the chemicals of the docstring example *)

Comps == {"Water", "Ethanol"}

MW == [c \in Comps |-> IF c = "Water" THEN 18 ELSE 46]

None == <<>>

Some(x) == <<x>>

Pressures == 1 .. MaxP

Flows == {i * SplitDen * FlowQuantum : i \in 0 .. MaxFlow}

RECURSIVE SumOver(_, _)
SumOver(f, D) ==
    IF D = {} THEN 0
    ELSE LET c == CHOOSE x \in D : TRUE
         IN  f[c] + SumOver(f, D \ {c})

\* Stream.F_mass: mass flow rate, kg/hr
F_mass(s) == SumOver([c \in Comps |-> s.flow[c] * MW[c]], Comps)

\* Stream.F_mol: total molar flow rate, kmol/hr
F_mol(s) == SumOver(s.flow, Comps)

ZeroFlow == [c \in Comps |-> 0]

\* an outlet stream before the first run: empty, at the conditions it was
\* created with
NewStream(T) == [flow |-> ZeroFlow, T |-> T, P |-> 1, phase |-> "l"]

----------------------------------------------------------------------------
(* Splitter: the component-wise split of 4.1 *)

SplitSpecs ==
    UNION {[D -> 0 .. SplitDen] : D \in SUBSET Comps}

\* fraction of component c sent to outs[0]; components not named get 0
isplit(c) == IF c \in DOMAIN split THEN split[c] ELSE 0

Splitter_top(feed) ==
    [c \in Comps |-> (feed.flow[c] * isplit(c)) \div SplitDen]

Splitter_bottom(feed) ==
    [c \in Comps |-> (feed.flow[c] * (SplitDen - isplit(c))) \div SplitDen]

\* Splitter._run: only the outlets' flow vectors are written
Splitter_run(feed, o) ==
    << [o[1] EXCEPT !.flow = Splitter_top(feed)],
       [o[2] EXCEPT !.flow = Splitter_bottom(feed)] >>

----------------------------------------------------------------------------
(* Construction *)

ArgsP == {None} \cup {Some(p) : p \in Pressures}

\* approx_duty left out of the call, or passed as False
ArgsApproxDuty == {None, Some(FALSE)}

\* the approx_duty parameter defaults to True
approx_duty_default == TRUE

Init ==
    /\ args \in [P : ArgsP, approx_duty : ArgsApproxDuty]
    /\ ins \in [flow : [Comps -> Flows], T : {351}, P : Pressures, phase : {"g"}]
    /\ outs = << NewStream(330), NewStream(298) >>
    /\ split \in SplitSpecs
    /\ P = None
    /\ approx_duty = IF args.approx_duty = None THEN approx_duty_default
                     ELSE args.approx_duty[1]
    /\ design_results = [k \in {} |-> 0]
    /\ heat_utilities = << >>
    /\ cost_results = [k \in {} |-> 0]
    /\ reconfigured = FALSE
    /\ last = "init"

----------------------------------------------------------------------------
(* MolecularSieve._run *)

\* faulty variant: the override is never consulted
Run_IgnoresOverride ==
    LET o == Splitter_run(ins, outs)
        Pout == ins.P
    IN  /\ outs' = << [o[1] EXCEPT !.P = Pout], [o[2] EXCEPT !.P = Pout] >>
        /\ last' = "run"
        /\ UNCHANGED <<args, ins, split, P, approx_duty, design_results,
                       heat_utilities, cost_results, reconfigured>>

\* faulty variant: the call to Splitter._run is missing
Run_NoSplit ==
    LET Pout == IF P = None THEN ins.P ELSE P[1]
    IN  /\ outs' = << [outs[1] EXCEPT !.P = Pout], [outs[2] EXCEPT !.P = Pout] >>
        /\ last' = "run"
        /\ UNCHANGED <<args, ins, split, P, approx_duty, design_results,
                       heat_utilities, cost_results, reconfigured>>

\* faulty variant: an empty feed is rejected
Run_RejectsEmptyFeed ==
    LET o == Splitter_run(ins, outs)
        Pout == IF P = None THEN ins.P ELSE P[1]
    IN  /\ F_mol(ins) > 0
        /\ outs' = << [o[1] EXCEPT !.P = Pout], [o[2] EXCEPT !.P = Pout] >>
        /\ last' = "run"
        /\ UNCHANGED <<args, ins, split, P, approx_duty, design_results,
                       heat_utilities, cost_results, reconfigured>>

\* faulty variant: the run also resets the heat utilities
Run_ClearsUtilities ==
    LET o == Splitter_run(ins, outs)
        Pout == IF P = None THEN ins.P ELSE P[1]
    IN  /\ outs' = << [o[1] EXCEPT !.P = Pout], [o[2] EXCEPT !.P = Pout] >>
        /\ heat_utilities' = << >>
        /\ last' = "run"
        /\ UNCHANGED <<args, ins, split, P, approx_duty, design_results,
                       cost_results, reconfigured>>

MolecularSieve_run ==
    LET o == Splitter_run(ins, outs)
        Pout == IF P = None THEN ins.P ELSE P[1]
    IN  /\ outs' = << [o[1] EXCEPT !.P = Pout], [o[2] EXCEPT !.P = Pout] >>
        /\ last' = "run"
        /\ UNCHANGED <<args, ins, split, P, approx_duty, design_results,
                       heat_utilities, cost_results, reconfigured>>

----------------------------------------------------------------------------
(* MolecularSieve._design *)

\* 1429.65 and -55.51 kJ per kg of reject, in hundredths
HeatCoeff == 142965

CoolCoeff == -5551

\* Unit.add_heat_utility(duty, T): one more entry at the end
add_heat_utility(hus, duty, T) == Append(hus, [duty |-> duty, T |-> T])

\* design_results[key] = value
SetItem(d, key, value) ==
    [k \in DOMAIN d \cup {key} |-> IF k = key THEN value ELSE d[k]]

\* the body of _design for a given flow, temperature and flag
Design(flow, T, duties) ==
    /\ duties => Len(heat_utilities) + 2 <= MaxHU
    /\ design_results' = SetItem(design_results, "Flow rate", flow)
    /\ heat_utilities' =
          IF duties
          THEN add_heat_utility(
                   add_heat_utility(heat_utilities, HeatCoeff * flow, T),
                   CoolCoeff * flow, T)
          ELSE heat_utilities
    /\ last' = "design"
    /\ UNCHANGED <<args, ins, outs, split, P, approx_duty, cost_results,
                   reconfigured>>

\* faulty variant: sized on the product stream
Design_ProductFlow == Design(F_mass(outs[1]), outs[1].T, approx_duty)

\* faulty variant: duties taken at the reject stream's temperature
Design_RejectT == Design(F_mass(outs[2]), outs[2].T, approx_duty)

\* faulty variant: the flag is not consulted
Design_IgnoresFlag == Design(F_mass(outs[2]), outs[1].T, TRUE)

MolecularSieve_design == Design(F_mass(outs[2]), outs[1].T, approx_duty)

----------------------------------------------------------------------------
(* Reconfiguration between calls: unit.P = p assigns an override pressure *)

SetP(p) ==
    /\ P # Some(p)
    /\ P' = Some(p)
    /\ reconfigured' = TRUE
    /\ last' = "setP"
    /\ UNCHANGED <<args, ins, outs, split, approx_duty, design_results,
                   heat_utilities, cost_results>>

----------------------------------------------------------------------------
(* The cost correlation bound to the class:                                *)
(*   @cost('Flow rate', 'Column', kW=151, BM=1.8,                          *)
(*         cost=2601000, CE=521.9, S=22687, n=0.6)                         *)

basis == "Flow rate"

kW == 151

\* BM = 1.8 = BM_num / BM_den
BM_num == 18

BM_den == 10

cost == 2601000

\* CE = 521.9, in tenths
CE == 5219

S == 22687

\* faulty variant: n = 0.0
n_num_zero == 3 - 3

\* n = 0.6 = n_num / n_den
n_num == 3

n_den == 5

\* the current cost index (567.5, in tenths), owned by the cost-index provider
bst_CE == 5675

RECURSIVE IPow(_, _)
IPow(b, e) == IF e = 0 THEN 1 ELSE b * IPow(b, e - 1)

\* r^d <= x, without forming r^d
RECURSIVE PowLeq(_, _, _)
PowLeq(r, d, x) ==
    IF d = 0 THEN 1 <= x
    ELSE IF r = 0 THEN 0 <= x
    ELSE PowLeq(r, d - 1, x \div r)

\* the largest r >= from with r^d <= x (x >= 0, d >= 1)
RECURSIVE RootFrom(_, _, _)
RootFrom(x, d, from) ==
    IF PowLeq(from + 1, d, x) THEN RootFrom(x, d, from + 1) ELSE from

IRoot(x, d) == RootFrom(x, d, 0)

\* floor(x * a / b) without forming x * a
MulDiv(x, a, b) == (x \div b) * a + ((x % b) * a) \div b

\* q = S_actual / S, in QDen-ths
SizeRatio(S_actual) == (S_actual * QDen) \div S

\* q ** n, in PowScale-ths: the n_den-th root of q^n_num * PowScale^n_den
RatioPow(q) ==
    IRoot(IPow(q, n_num) * (IPow(PowScale, n_den) \div IPow(QDen, n_num)), n_den)

\* purchase cost of the column: bst.CE / CE * cost * q ** n
PurchaseCost(S_actual) ==
    MulDiv((cost * RatioPow(SizeRatio(S_actual))) \div PowScale, bst_CE, CE)

\* installed cost: BM * purchase cost
InstalledCost(S_actual) == MulDiv(PurchaseCost(S_actual), BM_num, BM_den)

\* electricity rate: kW * q
Power(S_actual) == (kW * SizeRatio(S_actual)) \div QDen

\* the _cost method the decorator adds; it reads design_results[basis] and
\* runs right after _design
MolecularSieve_cost ==
    /\ last = "design"
    /\ basis \in DOMAIN design_results
    /\ LET S_actual == design_results[basis]
       IN  cost_results' = [Column |-> PurchaseCost(S_actual),
                            installed |-> InstalledCost(S_actual),
                            power |-> Power(S_actual)]
    /\ last' = "cost"
    /\ UNCHANGED <<args, ins, outs, split, P, approx_duty, design_results,
                   heat_utilities, reconfigured>>

Next ==
    \/ MolecularSieve_run
    \/ MolecularSieve_design
    \/ MolecularSieve_cost
    \/ \E p \in Pressures : SetP(p)

Spec == Init /\ [][Next]_vars

----------------------------------------------------------------------------
(* Properties *)

\* the pressure _run gives the outlets in the current configuration
ExpectedP == IF P = None THEN ins.P ELSE P[1]

\* C1: after every run both outlets have the same pressure: the inlet's when
\* the override is unset, the override when it is set, whatever the inlet's.
C1_PressurePropagation ==
    last = "run" =>
        /\ outs[1].P = outs[2].P
        /\ P = None => outs[1].P = ins.P
        /\ P # None => outs[1].P = P[1]

\* a run under an override that differs from the inlet pressure
C1_Witness ==
    /\ last = "run"
    /\ P # None
    /\ P[1] # ins.P
    /\ outs[1].P = P[1]
    /\ outs[2].P = P[1]

\* C2: a unit constructed with P = x and never reconfigured gives both outlets
\* the pressure x on run, whatever the inlet pressure.
C2_ConstructorOverride ==
    (last = "run" /\ args.P # None /\ ~reconfigured) =>
        /\ outs[1].P = args.P[1]
        /\ outs[2].P = args.P[1]

\* the two entries one pass books for a reject flow and a product temperature
PassEntries(flow, T) ==
    << [duty |-> HeatCoeff * flow, T |-> T], [duty |-> CoolCoeff * flow, T |-> T] >>

\* C3: a second run(); design() with unchanged inputs leaves DesignResults and
\* the heat-utility entries as the first pass left them: with the flag enabled
\* the unit still holds exactly two entries.  Stated on the design() of the
\* second pass: it starts from the results of the first pass and the outlets
\* the second run recomputed.
C3_IdempotentResimulation ==
    [][ ( /\ last = "run"
          /\ last' = "design"
          /\ approx_duty
          /\ F_mass(outs[2]) > 0
          /\ design_results = [k \in {"Flow rate"} |-> F_mass(outs[2])]
          /\ heat_utilities = PassEntries(F_mass(outs[2]), outs[1].T) )
        => ( /\ design_results' = design_results
             /\ heat_utilities' = heat_utilities
             /\ Len(heat_utilities') = 2 ) ]_vars

\* C4: run conserves every component: outs[0][c] + outs[1][c] = ins[0][c],
\* outs[0][c] = ins[0][c] * fraction(c), and a component the SplitSpec does
\* not name goes to outs[1] entirely.
C4_MassConservation ==
    last = "run" =>
        \A c \in Comps :
            /\ outs[1].flow[c] + outs[2].flow[c] = ins.flow[c]
            /\ c \in DOMAIN split =>
                   outs[1].flow[c] * SplitDen = ins.flow[c] * split[c]
            /\ c \notin DOMAIN split =>
                   outs[1].flow[c] = 0 /\ outs[2].flow[c] = ins.flow[c]

\* a run that splits one component strictly between the outlets and routes
\* another, absent from the SplitSpec, to outs[1]
C4_Witness ==
    /\ last = "run"
    /\ \E c \in DOMAIN split :
           /\ 0 < split[c] /\ split[c] < SplitDen
           /\ outs[1].flow[c] > 0 /\ outs[2].flow[c] > 0
    /\ \E c \in Comps \ DOMAIN split : outs[2].flow[c] > 0

C6_FlowRateIsRejectMass ==
    last = "design" =>
        /\ DOMAIN design_results = {"Flow rate"}
        /\ design_results["Flow rate"] =
               outs[2].flow["Water"] * MW["Water"]
                   + outs[2].flow["Ethanol"] * MW["Ethanol"]

\* a design whose metric differs from the product's and the inlet's mass flow
C6_Witness ==
    /\ last = "design"
    /\ design_results["Flow rate"] > 0
    /\ design_results["Flow rate"] # F_mass(outs[1])
    /\ design_results["Flow rate"] # F_mass(ins)
    /\ F_mass(outs[1]) > 0

\* C7: the flag is enabled by default, and with it enabled one design adds
\* exactly two entries, in this order: 1429.65 * reject mass flow, then
\* -55.51 * reject mass flow, both at the product stream's temperature.
C7_TwoDutiesPerDesign ==
    [][ /\ args.approx_duty = None => approx_duty
        /\ (last' = "design" /\ approx_duty) =>
               /\ Len(heat_utilities') = Len(heat_utilities) + 2
               /\ SubSeq(heat_utilities', 1, Len(heat_utilities)) = heat_utilities
               /\ heat_utilities'[Len(heat_utilities) + 1] =
                      [duty |-> 142965 * F_mass(outs[2]), T |-> outs[1].T]
               /\ heat_utilities'[Len(heat_utilities) + 2] =
                      [duty |-> (-5551) * F_mass(outs[2]), T |-> outs[1].T] ]_vars

\* a design by a unit built with the default flag, after a run with a
\* non-empty reject stream
C7_Witness ==
    /\ last = "design"
    /\ args.approx_duty = None
    /\ Len(heat_utilities) = 2
    /\ heat_utilities[1].duty > 0
    /\ heat_utilities[2].duty < 0
    /\ heat_utilities[1].T = outs[1].T
    /\ outs[1].T # outs[2].T

\* C8: with the flag disabled design adds no heat-utility entry and still
\* writes DesignResults["Flow rate"].
C8_NoDutiesWhenDisabled ==
    [][ (last' = "design" /\ ~approx_duty) =>
            /\ heat_utilities' = heat_utilities
            /\ "Flow rate" \in DOMAIN design_results'
            /\ design_results'["Flow rate"] = F_mass(outs[2]) ]_vars

\* a design with the flag disabled, after a run with a non-empty reject stream
C8_Witness ==
    /\ last = "design"
    /\ ~approx_duty
    /\ heat_utilities = << >>
    /\ "Flow rate" \in DOMAIN design_results
    /\ design_results["Flow rate"] > 0

\* flow rates the costs are compared at
ProbeStep == 500

MaxProbe == 40

ProbeFlows == {i * ProbeStep : i \in 0 .. MaxProbe}

PurchaseCostAt == [f \in ProbeFlows |-> PurchaseCost(f)]

\* C9: for the fixed correlation and cost index the purchase cost is
\* non-decreasing in the flow rate, and a zero flow rate costs nothing.
C9_CostMonotone ==
    last = "cost" =>
        LET F == design_results["Flow rate"]
            c == cost_results.Column
        IN  /\ F = 0 => c = 0
            /\ c >= 0
            /\ \A f \in ProbeFlows :
                   /\ f <= F => PurchaseCostAt[f] <= c
                   /\ f >= F => PurchaseCostAt[f] >= c
            /\ \A f \in ProbeFlows \ {0} :
                   PurchaseCostAt[f - ProbeStep] <= PurchaseCostAt[f]

\* a costed design with a positive flow rate and a positive cost
C9_Witness ==
    /\ last = "cost"
    /\ design_results["Flow rate"] > 0
    /\ cost_results.Column > 0
    /\ \E f \in ProbeFlows : f > 0 /\ PurchaseCostAt[f] < cost_results.Column
    /\ \E f \in ProbeFlows : PurchaseCostAt[f] > cost_results.Column

\* C10: run writes only the outlet streams, and design writes no stream.
C10_Frame ==
    [][ /\ last' = "run" =>
               UNCHANGED <<ins, split, P, approx_duty, design_results,
                           heat_utilities, cost_results>>
        /\ last' = "design" => UNCHANGED <<ins, outs>> ]_vars

\* a run that recomputed the outlets of a unit holding design results and
\* heat utilities
C10_Witness ==
    /\ last = "run"
    /\ Len(heat_utilities) = 2
    /\ "Flow rate" \in DOMAIN design_results
    /\ design_results["Flow rate"] > 0
    /\ cost_results # [k \in {} |-> 0]

====
